---- MODULE Spec2Model ----
(***************************************************************************)
(* Model of tools/KafkaTopics.cc: the kafka-topics command line tool.      *)
(* One process run: ParseArguments, then main's configuration loop, the    *)
(* construction of the admin client and the single list/create/delete      *)
(* call.  The command line is the input; the admin client library is the   *)
(* environment and answers each call nondeterministically.                 *)
(***************************************************************************)
EXTENDS Integers, Sequences, FiniteSets, TLC

VARIABLES argv, pc, args, adminConf, session, calls, out, err, exitStatus

vars == <<argv, pc, args, adminConf, session, calls, out, err, exitStatus>>

(* ---------------------------- bounds ----------------------------------- *)

\* longest --admin-config / --topic-props token list on the command line
MaxProps == 1
\* longest topic list the external client returns
MaxTopics == 2

(* ---------------------------- constants -------------------------------- *)

EXIT_SUCCESS == 0
EXIT_FAILURE == 1

\* the values tried for --partitions and --replication-factor
IntVals == {-1, 0, 1}

\* key=value tokens, as character sequences: well formed, no '=', two '=',
\* empty key, empty value
Tokens == { <<"k", "=", "v">>, <<"k">>, <<"k", "=", "v", "=", "w">>,
            <<"=", "v">>, <<"k", "=">> }

TopicNames == {"a", "b"}

BrokerValue == "broker:9092"
TopicValue == "t1"

BOOTSTRAP_SERVERS == <<"bootstrap.servers">>

\* sequences over S of length at most n
SeqUpTo(S, n) == UNION { [1..k -> S] : k \in 0..n }

(* ---------------------------- messages --------------------------------- *)

ParseErrorWhat == "boost::program_options: the command line cannot be parsed"
RequiredWhat == "the option '--bootstrap-server' is required but missing"
ExactlyOneWhat == "MUST choose exactly one operation from '--list/--create/--delete'"
ListWhat == "The --list operation CANNOT take any '--topic/--partitions/--replication-factor/--topic-props' option!"
CreateWhat == "The --create operation MUST be with '--topic/--partitions/--replication-factor' options!"
DeleteMustWhat == "The --delete operation MUST be with '--topic' option!"
DeleteCannotWhat == "The --delete operation CANNOT take any of '--partitions/--replication-factor/--topic-props' options!"

WrongAdminConfig == "Wrong option for --admin-config! MUST follow with key=value format!"
WrongTopicProps == "Wrong option for --topic-props! MUST follow with key=value format!"
ErrorDetail == "Error: detail"

HelpText == << "This tool helps in Kafka topic operations",
               "    (with librdkafka v)",
               "Options description" >>

(* ---------------------------- command line ----------------------------- *)

\* A command line: which options occur, the values of the integer options,
\* the token lists of the multitoken options, and whether it holds something
\* boost cannot parse (unknown option, stray positional token, missing or
\* non-integer value, repeated single-valued option).
CommandLines ==
    { a \in [ help : BOOLEAN, bootstrapServer : BOOLEAN,
              list : BOOLEAN, create : BOOLEAN, delete : BOOLEAN,
              topic : BOOLEAN,
              hasPartitions : BOOLEAN, partitions : IntVals \cup {0},
              hasReplicationFactor : BOOLEAN, replicationFactor : IntVals \cup {0},
              adminConfig : SeqUpTo(Tokens, MaxProps),
              topicProps : SeqUpTo(Tokens, MaxProps),
              unparsable : BOOLEAN ] :
        /\ (~a.hasPartitions => a.partitions = 0)
        /\ (~a.hasReplicationFactor => a.replicationFactor = 0) }

B2N(b) == IF b THEN 1 ELSE 0

\* number of entries of argv, the program name included
Argc(a) ==
    1 + B2N(a.help) + 2 * B2N(a.bootstrapServer)
      + B2N(a.list) + B2N(a.create) + B2N(a.delete)
      + 2 * B2N(a.topic) + 2 * B2N(a.hasPartitions) + 2 * B2N(a.hasReplicationFactor)
      + (IF a.adminConfig = <<>> THEN 0 ELSE 1 + Len(a.adminConfig))
      + (IF a.topicProps = <<>> THEN 0 ELSE 1 + Len(a.topicProps))
      + B2N(a.unparsable)

\* vm.count(name) after po::store
Count(a, name) ==
    CASE name = "help" -> B2N(a.help)
      [] name = "bootstrap-server" -> B2N(a.bootstrapServer)
      [] name = "list" -> B2N(a.list)
      [] name = "create" -> B2N(a.create)
      [] name = "delete" -> B2N(a.delete)
      [] name = "topic" -> B2N(a.topic)
      [] name = "partitions" -> B2N(a.hasPartitions)
      [] name = "replication-factor" -> B2N(a.hasReplicationFactor)
      [] name = "admin-config" -> B2N(a.adminConfig # <<>>)
      [] name = "topic-props" -> B2N(a.topicProps # <<>>)

(* ---------------------------- ParseArguments --------------------------- *)

\* the help test without the argc == 1 case
HelpRequestedFlagOnly(a) == Count(a, "help") > 0

\* vm.count("help") || argc == 1
HelpRequested(a) == Count(a, "help") > 0 \/ Argc(a) = 1

\* the selector count with --delete left out of the sum
OperationCountNoDelete(a) == Count(a, "list") + Count(a, "create")

\* vm.count("list") + vm.count("create") + vm.count("delete")
OperationCount(a) == Count(a, "list") + Count(a, "create") + Count(a, "delete")

\* args->opType
OpTypeOf(a) ==
    IF Count(a, "list") > 0 THEN "List"
    ELSE IF Count(a, "create") > 0 THEN "Create" ELSE "Delete"

\* --list with any topic option
ListForbidden(a) ==
    \/ Count(a, "topic") > 0
    \/ Count(a, "partitions") > 0
    \/ Count(a, "replication-factor") > 0
    \/ Count(a, "topic-props") > 0

\* --create without one of its three required options
CreateMissing(a) ==
    \/ Count(a, "topic") = 0
    \/ Count(a, "partitions") = 0
    \/ Count(a, "replication-factor") = 0

\* --delete without --topic
DeleteMissing(a) == Count(a, "topic") = 0

\* the Delete check with --topic-props left out
DeleteForbiddenNoProps(a) ==
    \/ Count(a, "partitions") > 0
    \/ Count(a, "replication-factor") > 0

\* --delete with --partitions, --replication-factor or --topic-props
DeleteForbidden(a) ==
    \/ Count(a, "partitions") > 0
    \/ Count(a, "replication-factor") > 0
    \/ Count(a, "topic-props") > 0

\* the switch on args->opType: the message thrown, "" when nothing is thrown
CheckOperation(a, opType) ==
    CASE opType = "List" -> IF ListForbidden(a) THEN ListWhat ELSE ""
      [] opType = "Create" -> IF CreateMissing(a) THEN CreateWhat ELSE ""
      [] opType = "Delete" ->
            IF DeleteMissing(a) THEN DeleteMustWhat
            ELSE IF DeleteForbidden(a) THEN DeleteCannotWhat ELSE ""

\* the Arguments object the option values are stored into
Arguments(a, opType) ==
    [ broker |-> IF a.bootstrapServer THEN BrokerValue ELSE "",
      topic |-> IF a.topic THEN TopicValue ELSE "",
      opType |-> opType,
      partitions |-> a.partitions,
      replicationFactor |-> a.replicationFactor,
      adminConfig |-> a.adminConfig,
      topicProps |-> a.topicProps ]

Throw(what) == [ kind |-> "throw", what |-> what, args |-> <<>> ]

\* The outcome of ParseArguments: an exception (kind "throw", its what()),
\* the help text printed and nullptr returned (kind "help"), or the
\* Arguments (kind "args", args the one-element sequence holding them).
ParseArguments(a) ==
    IF a.unparsable THEN Throw(ParseErrorWhat)
    ELSE IF HelpRequested(a) THEN [ kind |-> "help", what |-> "", args |-> <<>> ]
    ELSE IF Count(a, "bootstrap-server") = 0 THEN Throw(RequiredWhat)
    ELSE IF OperationCount(a) # 1 THEN Throw(ExactlyOneWhat)
    ELSE LET opType == OpTypeOf(a)
             what == CheckOperation(a, opType)
         IN IF what # "" THEN Throw(what)
            ELSE [ kind |-> "args", what |-> "", args |-> << Arguments(a, opType) >> ]

(* ---------------------------- key=value -------------------------------- *)

\* boost::algorithm::split(keyValue, item, boost::is_any_of("=")): the parts
\* between the '=' characters, empty parts kept
RECURSIVE Split(_)
Split(item) ==
    IF item = <<>> THEN << <<>> >>
    ELSE LET rest == Split(Tail(item))
         IN IF Head(item) = "=" THEN << <<>> >> \o rest
            ELSE << <<Head(item)>> \o rest[1] >> \o Tail(rest)

\* Properties::put(key, value)
Put(conf, key, value) ==
    [ x \in (DOMAIN conf) \cup {key} |-> IF x = key THEN value ELSE conf[x] ]

\* keyValue.size() != 2
WrongOption(keyValue) == Len(keyValue) # 2

\* The loop over the tokens of a property list: every token is split and
\* put, up to the first one that is rejected.
RECURSIVE PutAll(_, _)
PutAll(items, conf) ==
    IF items = <<>> THEN [ ok |-> TRUE, conf |-> conf ]
    ELSE LET keyValue == Split(Head(items))
         IN IF WrongOption(keyValue) THEN [ ok |-> FALSE, conf |-> conf ]
            ELSE PutAll(Tail(items), Put(conf, keyValue[1], keyValue[2]))

EmptyProperties == [ x \in {} |-> <<>> ]

(* ---------------------------- external client -------------------------- *)

\* what constructing the AdminClient can do: return, or throw
SessionOutcomes == {"constructed", "throws"}

\* listTopics(): { error, detail, topics }
ListResults ==
    { [ error |-> FALSE, topics |-> t ] : t \in SeqUpTo(TopicNames, MaxTopics) }
      \cup { [ error |-> TRUE, topics |-> <<>> ] }

\* createTopics() and deleteTopics(): { error, detail }
OpResults == { [ error |-> e ] : e \in BOOLEAN }

(* ---------------------------- main ------------------------------------- *)

Init ==
    /\ argv \in CommandLines
    /\ pc = "ParseArgs"
    /\ args = <<>>
    /\ adminConf = EmptyProperties
    /\ session = "none"
    /\ calls = <<>>
    /\ out = <<>>
    /\ err = <<>>
    /\ exitStatus = <<>>

\* the branch with the first comparison against the wrong enumerator
BranchWrongCompare(opType) ==
    IF opType = "Delete" THEN "listTopics"
    ELSE IF opType = "Create" THEN "createTopics" ELSE "deleteTopics"

\* the if / else if / else on args->opType that picks the external call
Branch(opType) ==
    IF opType = "List" THEN "listTopics"
    ELSE IF opType = "Create" THEN "createTopics" ELSE "deleteTopics"

\* the printing loop stopping one name early
PrintTopicsButLast(stream, topics) ==
    stream \o SubSeq(topics, 1, Len(topics) - 1)

\* the loop printing listResult.topics, one name per line
PrintTopics(stream, topics) == stream \o topics

\* args = ParseArguments(argc, argv), the catch block and the help return
ParseArgs ==
    /\ pc = "ParseArgs"
    /\ LET r == ParseArguments(argv)
       IN CASE r.kind = "throw" ->
                 /\ out' = Append(out, r.what)
                 /\ pc' = "Exited"
                 /\ exitStatus' = <<EXIT_FAILURE>>
                 /\ args' = args
            [] r.kind = "help" ->
                 /\ out' = out \o HelpText
                 /\ pc' = "Exited"
                 /\ exitStatus' = <<EXIT_SUCCESS>>
                 /\ args' = args
            [] r.kind = "args" ->
                 /\ out' = out
                 /\ pc' = "BuildConfig"
                 /\ exitStatus' = exitStatus
                 /\ args' = r.args
    /\ UNCHANGED <<argv, adminConf, session, calls, err>>

\* adminConf.put(BOOTSTRAP_SERVERS, broker) and the --admin-config loop
BuildConfig ==
    /\ pc = "BuildConfig"
    /\ LET r == PutAll(args[1].adminConfig,
                       Put(adminConf, BOOTSTRAP_SERVERS, <<args[1].broker>>))
       IN /\ adminConf' = r.conf
          /\ IF r.ok
             THEN /\ pc' = "OpenSession"
                  /\ UNCHANGED <<err, exitStatus>>
             ELSE /\ err' = Append(err, WrongAdminConfig)
                  /\ pc' = "Exited"
                  /\ exitStatus' = <<EXIT_FAILURE>>
    /\ UNCHANGED <<argv, args, session, calls, out>>

\* Kafka::AdminClient adminClient(adminConf): an exception leaves main
\* uncaught and the process is terminated
OpenSession ==
    /\ pc = "OpenSession"
    /\ \E o \in SessionOutcomes :
          IF o = "constructed"
          THEN /\ session' = "open"
               /\ pc' = "Dispatch"
          ELSE /\ session' = session
               /\ pc' = "Terminated"
    /\ UNCHANGED <<argv, args, adminConf, calls, out, err, exitStatus>>

\* the List branch
ListTopics ==
    /\ pc = "Dispatch"
    /\ Branch(args[1].opType) = "listTopics"
    /\ \E listResult \in ListResults :
          /\ calls' = Append(calls, [ op |-> "listTopics", result |-> listResult ])
          /\ IF listResult.error
             THEN /\ err' = Append(err, ErrorDetail)
                  /\ out' = out
                  /\ exitStatus' = <<EXIT_FAILURE>>
             ELSE /\ err' = err
                  /\ out' = PrintTopics(out, listResult.topics)
                  /\ exitStatus' = <<EXIT_SUCCESS>>
    /\ pc' = "Exited"
    /\ session' = "released"
    /\ UNCHANGED <<argv, args, adminConf>>

\* the Create branch: the --topic-props loop, then createTopics
CreateTopics ==
    /\ pc = "Dispatch"
    /\ Branch(args[1].opType) = "createTopics"
    /\ LET r == PutAll(args[1].topicProps, EmptyProperties)
       IN IF ~r.ok
          THEN /\ err' = Append(err, WrongTopicProps)
               /\ exitStatus' = <<EXIT_FAILURE>>
               /\ calls' = calls
          ELSE \E createResult \in OpResults :
                 /\ calls' = Append(calls,
                        [ op |-> "createTopics",
                          topics |-> << args[1].topic >>,
                          partitions |-> args[1].partitions,
                          replicationFactor |-> args[1].replicationFactor,
                          topicProps |-> r.conf,
                          result |-> createResult ])
                 /\ IF createResult.error
                    THEN /\ err' = Append(err, ErrorDetail)
                         /\ exitStatus' = <<EXIT_FAILURE>>
                    ELSE /\ err' = err
                         /\ exitStatus' = <<EXIT_SUCCESS>>
    /\ pc' = "Exited"
    /\ session' = "released"
    /\ UNCHANGED <<argv, args, adminConf, out>>

\* the Delete branch
DeleteTopics ==
    /\ pc = "Dispatch"
    /\ Branch(args[1].opType) = "deleteTopics"
    /\ \E deleteResult \in OpResults :
          /\ calls' = Append(calls,
                 [ op |-> "deleteTopics", topics |-> << args[1].topic >>,
                   result |-> deleteResult ])
          /\ IF deleteResult.error
             THEN /\ err' = Append(err, ErrorDetail)
                  /\ exitStatus' = <<EXIT_FAILURE>>
             ELSE /\ err' = err
                  /\ exitStatus' = <<EXIT_SUCCESS>>
    /\ pc' = "Exited"
    /\ session' = "released"
    /\ UNCHANGED <<argv, args, adminConf, out>>

Next ==
    \/ ParseArgs
    \/ BuildConfig
    \/ OpenSession
    \/ ListTopics
    \/ CreateTopics
    \/ DeleteTopics

Spec == Init /\ [][Next]_vars

(* ---------------------------- type invariant --------------------------- *)

TypeOK ==
    /\ argv \in CommandLines
    /\ pc \in {"ParseArgs", "BuildConfig", "OpenSession", "Dispatch", "Exited", "Terminated"}
    /\ Len(args) <= 1
    /\ session \in {"none", "open", "released"}
    /\ exitStatus \in {<<>>, <<EXIT_SUCCESS>>, <<EXIT_FAILURE>>}

(* ---------------------------- outcomes --------------------------------- *)

InSeq(x, seq) == \E i \in DOMAIN seq : seq[i] = x

\* how many of --list, --create, --delete the command line holds
NumSelected == Cardinality({ f \in {"list", "create", "delete"} : argv[f] })

\* the command line holds the program name only
NoArguments ==
    /\ ~argv.help /\ ~argv.bootstrapServer
    /\ ~argv.list /\ ~argv.create /\ ~argv.delete
    /\ ~argv.topic /\ ~argv.hasPartitions /\ ~argv.hasReplicationFactor
    /\ argv.adminConfig = <<>> /\ argv.topicProps = <<>>
    /\ ~argv.unparsable

UsageMessages ==
    { ParseErrorWhat, RequiredWhat, ExactlyOneWhat, ListWhat, CreateWhat,
      DeleteMustWhat, DeleteCannotWhat }

MalformedMessages == { WrongAdminConfig, WrongTopicProps }

Diagnostics == UsageMessages \cup MalformedMessages \cup { ErrorDetail }

Parsed == pc # "ParseArgs"

\* the parser refused the command line: a message was written, no request
\* was returned and the process exited with status 1
UsageError ==
    /\ pc = "Exited"
    /\ exitStatus = <<EXIT_FAILURE>>
    /\ args = <<>>
    /\ \E m \in UsageMessages : InSeq(m, out) \/ InSeq(m, err)

\* a key=value token was refused and the process exited with status 1
MalformedProperty ==
    /\ pc = "Exited"
    /\ exitStatus = <<EXIT_FAILURE>>
    /\ \E m \in MalformedMessages : InSeq(m, out) \/ InSeq(m, err)

\* usage was printed, the process exited with status 0, nothing else happened
ShowHelp ==
    /\ pc = "Exited"
    /\ exitStatus = <<EXIT_SUCCESS>>
    /\ out = HelpText
    /\ err = <<>>
    /\ args = <<>>
    /\ session = "none"
    /\ calls = <<>>

\* the parser returned a request
RequestReturned == args # <<>>

(* ---------------------------- C1 --------------------------------------- *)

\* C1 as stated: every command line with zero or more than one of --list,
\* --create, --delete ends in a UsageError, whatever the other flags are.
C1_AnySelectorCountIsUsageError ==
    (Parsed /\ NumSelected # 1) => UsageError

\* C1 amended: every command line with no help flag, at least one argument
\* and zero or more than one of --list, --create, --delete ends in a
\* UsageError (a message, no request, exit status 1), whatever the other
\* flags are.
C1_SelectorCountWithoutHelp ==
    (Parsed /\ NumSelected # 1 /\ ~argv.help /\ ~NoArguments) => UsageError

\* two selectors, the broker given: refused with the exactly-one message
C1_Witness ==
    /\ argv.list /\ argv.create /\ ~argv.help /\ argv.bootstrapServer
    /\ ~argv.unparsable
    /\ UsageError
    /\ out = << ExactlyOneWhat >>

(* ---------------------------- C2 --------------------------------------- *)

\* the required / forbidden table of the three operations
TableMatch ==
    \/ /\ argv.list
       /\ ~argv.topic /\ ~argv.hasPartitions /\ ~argv.hasReplicationFactor
       /\ argv.topicProps = <<>>
    \/ /\ argv.create
       /\ argv.topic /\ argv.hasPartitions /\ argv.hasReplicationFactor
    \/ /\ argv.delete
       /\ argv.topic
       /\ ~argv.hasPartitions /\ ~argv.hasReplicationFactor
       /\ argv.topicProps = <<>>

SelectedOpType ==
    IF argv.list THEN "List" ELSE IF argv.create THEN "Create" ELSE "Delete"

ClaimMalformed(token) ==
    \/ Cardinality({ i \in DOMAIN token : token[i] = "=" }) # 1
    \/ token[1] = "="
    \/ token[Len(token)] = "="

\* C3: once a property list holding a malformed token has been processed,
\* the process has exited with status 1 and the matching message, and no
\* key or value that was put is empty.
C3_MalformedTokenIsFatal ==
    /\ ( /\ RequestReturned
         /\ pc # "BuildConfig"
         /\ \E i \in DOMAIN args[1].adminConfig : ClaimMalformed(args[1].adminConfig[i]) )
       => (MalformedProperty /\ InSeq(WrongAdminConfig, err))
    /\ ( /\ RequestReturned
         /\ pc = "Exited"
         /\ session = "released"
         /\ args[1].opType = "Create"
         /\ \E i \in DOMAIN args[1].topicProps : ClaimMalformed(args[1].topicProps[i]) )
       => (MalformedProperty /\ InSeq(WrongTopicProps, err) /\ calls = <<>>)
    /\ \A key \in DOMAIN adminConf : key # <<>> /\ adminConf[key] # <<>>
    /\ \A i \in DOMAIN calls :
          calls[i].op = "createTopics"
             => \A key \in DOMAIN calls[i].topicProps :
                   key # <<>> /\ calls[i].topicProps[key] # <<>>

(* ---------------------------- C4 --------------------------------------- *)

\* C4: a run that ends in a UsageError or a MalformedProperty never
\* constructed an admin-client session and made no external call.
C4_InputErrorsBeforeSession ==
    (UsageError \/ MalformedProperty) => (session = "none" /\ calls = <<>>)

(* ---------------------------- C5 --------------------------------------- *)

HelpDisplayed == out = HelpText

OperationSucceeded == Len(calls) = 1 /\ ~calls[1].result.error

\* C5: every run ends by exiting with status 0 or 1, and the status is 0
\* exactly when help was displayed or the external operation succeeded.
C5_ExitStatus ==
    /\ pc \in {"Exited", "Terminated"}
          => /\ pc = "Exited"
             /\ exitStatus \in { <<EXIT_SUCCESS>>, <<EXIT_FAILURE>> }
             /\ exitStatus = <<EXIT_SUCCESS>> <=> (HelpDisplayed \/ OperationSucceeded)
    /\ pc \notin {"Exited", "Terminated"} => exitStatus = <<>>

(* ---------------------------- C6 --------------------------------------- *)

\* C6: no diagnostic is ever written to standard output, which holds only
\* the help text of a help run or the topic names of a successful List.
C6_DiagnosticsOnErrorStream ==
    /\ \A i \in DOMAIN out : out[i] \notin Diagnostics
    /\ out # <<>> =>
          \/ out = HelpText
          \/ /\ Len(calls) = 1
             /\ calls[1].op = "listTopics"
             /\ ~calls[1].result.error
             /\ out = calls[1].result.topics

(* ---------------------------- C7 --------------------------------------- *)

\* C7: at most one external operation is invoked per run, it is the one of
\* the selector on the command line, and once it has reported failure the
\* process has exited with status 1 and can take no further step.
C7_AtMostOneOperation ==
    /\ Len(calls) <= 1
    /\ calls # <<>> =>
          /\ NumSelected = 1
          /\ calls[1].op = "listTopics" <=> argv.list
          /\ calls[1].op = "createTopics" <=> argv.create
          /\ calls[1].op = "deleteTopics" <=> argv.delete
          /\ pc = "Exited"
          /\ ~ENABLED Next
          /\ calls[1].result.error => exitStatus = <<EXIT_FAILURE>>

\* a deleteTopics call that failed, and the process exited with status 1
C7_Witness ==
    /\ Len(calls) = 1
    /\ calls[1].op = "deleteTopics"
    /\ calls[1].result.error
    /\ argv.delete
    /\ pc = "Exited"
    /\ exitStatus = <<EXIT_FAILURE>>

(* ---------------------------- C8 --------------------------------------- *)

\* C8: after a List, standard output is exactly the returned sequence of
\* topic names when the call succeeded, and empty when it failed; the
\* output is a function of the returned sequence alone.
C8_ListOutput ==
    (pc = "Exited" /\ calls # <<>> /\ calls[1].op = "listTopics")
        => IF calls[1].result.error
           THEN out = <<>> /\ exitStatus = <<EXIT_FAILURE>>
           ELSE out = calls[1].result.topics /\ exitStatus = <<EXIT_SUCCESS>>

\* a successful List of two different names, printed in the returned order
C8_Witness ==
    /\ pc = "Exited"
    /\ Len(calls) = 1
    /\ calls[1].op = "listTopics"
    /\ calls[1].result = [ error |-> FALSE, topics |-> <<"b", "a">> ]
    /\ out = <<"b", "a">>

(* ---------------------------- C9 --------------------------------------- *)

\* C9 as stated: a help flag, or no argument at all, always ends in
\* ShowHelp, whatever else the command line holds.
C9_HelpAlwaysWins ==
    (Parsed /\ (argv.help \/ NoArguments)) => ShowHelp

\* C9 amended: a help flag on a command line the option parser accepts
\* (known options only, every value present and convertible), or no
\* argument at all, ends in ShowHelp: usage printed, exit status 0, no
\* session and no external call, whatever other flags are present, missing
\* or conflicting.
C9_HelpWinsWhenParsable ==
    (Parsed /\ ((argv.help /\ ~argv.unparsable) \/ NoArguments)) => ShowHelp

\* help next to two conflicting selectors and without --bootstrap-server
C9_Witness ==
    /\ argv.help /\ ~argv.bootstrapServer /\ argv.list /\ argv.delete
    /\ ShowHelp

(* ---------------------------- C10 -------------------------------------- *)

\* C10: every createTopics call carries a positive partition count and a
\* positive replication factor.
C10_CreateIsPositive ==
    \A i \in DOMAIN calls :
        calls[i].op = "createTopics"
            => calls[i].partitions > 0 /\ calls[i].replicationFactor > 0

====
